---- MODULE Spec2Model ----
(***************************************************************************)
(* web-monitor: one polling goroutine per command-line URL, one display    *)
(* goroutine, a notification channel between them, and a coordinator that  *)
(* waits for all of them before printing the final table.                  *)
(*                                                                         *)
(* The repository holds two builds of the Monitor type:                    *)
(*   - src/monitor.go: shutdown channel, wg inside Monitor, unbuffered      *)
(*     updatedData channel, httpClient.Get (no context on the request);    *)
(*   - src/unnamed/part_000: context.Context passed down, the caller's      *)
(*     WaitGroup, updatedData buffered with 100 slots, request built with  *)
(*     http.NewRequestWithContext (this is the build src/main.go calls).   *)
(* The variable usesContext selects the build; it is fixed by Init.        *)
(***************************************************************************)
EXTENDS Integers, Sequences, FiniteSets, TLC

----------------------------------------------------------------------------
(* Bounds of the model *)

\* requests all polling goroutines together issue in one run of the model:
\* every goroutine's first request is always issued, and the tickers deliver
\* a tick only while the total, first requests still to come included, stays
\* below this number
MaxRequests == 2

\* updating goroutines of the thread-safety test (10 in the test) and Update
\* calls each of them makes (100 in the test)
NumGoroutines == 2
UpdatesPerGoroutine == 2

\* Update calls made one after the other on a fresh URLStats (3 or 4 in the
\* unit tests), and the largest duration and body size passed to them
MaxUpdates == 3
MaxValue == 1

----------------------------------------------------------------------------
(* Program constants *)

\* make(chan struct{}, 100) in part_000; make(chan struct{}) in monitor.go
BufferedCap == 100
UnbufferedCap == 0
\* http.Client{Timeout: 10 * time.Second}
RequestTimeout == 10
\* time.NewTicker(5 * time.Second)
PollInterval == 5
\* stand-in for the int64 maximum ^int64(0)>>1 used as the "unset minimum"
\* sentinel: the largest value the checker's integers hold.  Only comparisons
\* against it matter, never its arithmetic.
MaxInt64 == 2147483647

----------------------------------------------------------------------------
(* Command-line arguments and their validation (main.go) *)

\* An argument after url.Parse: its scheme, its host, and whether the raw
\* string carried surrounding white space.
Arg(scheme, host, padded) == [scheme |-> scheme, host |-> host, padded |-> padded]

ArgA == Arg("http", "a", FALSE)
ArgB == Arg("https", "b", FALSE)
ArgAPadded == Arg("http", "a", TRUE)
ArgFtp == Arg("ftp", "a", FALSE)
ArgNoHost == Arg("http", "", FALSE)

\* the argument lists the model starts the program with
ArgLists ==
    { <<>>, <<ArgA>>, <<ArgA, ArgB>>, <<ArgA, ArgA>>, <<ArgA, ArgAPadded>>,
      <<ArgFtp>>, <<ArgA, ArgNoHost>> }

\* strings.TrimSpace(arg)
TrimSpace(a) == [a EXCEPT !.padded = FALSE]

\* the per-argument checks of validateURLs
validArg(a) ==
    /\ a.scheme \in {"http", "https"}
    /\ a.host # ""

\* validateURLs: err == nil
validateURLsOk(args) ==
    /\ Len(args) > 0
    /\ \A i \in 1..Len(args) : validArg(TrimSpace(args[i]))

\* validateURLs: the returned list (the trimmed arguments, in order)
validateURLs(args) == [i \in 1..Len(args) |-> TrimSpace(args[i])]

----------------------------------------------------------------------------
(* URLStats (stats.go) *)

NewURLStats(url) ==
    [URL |-> url, TotalRequests |-> 0, SuccessCount |-> 0,
     MinDuration |-> MaxInt64, MaxDuration |-> 0, TotalDuration |-> 0,
     MinSize |-> MaxInt64, MaxSize |-> 0, TotalSize |-> 0]

\* s.TotalRequests++
IncTotal(s) == [s EXCEPT !.TotalRequests = @ + 1]

\* if success { s.SuccessCount++ }
IncSuccess(s, success) ==
    IF success THEN [s EXCEPT !.SuccessCount = @ + 1] ELSE s

\* UpdDuration with the maximum overwritten by every update
UpdDuration_LastAsMax(s, duration) ==
    [s EXCEPT
       !.MinDuration = IF s.TotalRequests = 1 \/ duration < @ THEN duration ELSE @,
       !.MaxDuration = duration,
       !.TotalDuration = @ + duration]

\* the three duration statements of Update, after the count was incremented
UpdDuration(s, duration) ==
    [s EXCEPT
       !.MinDuration = IF s.TotalRequests = 1 \/ duration < @ THEN duration ELSE @,
       !.MaxDuration = IF duration > @ THEN duration ELSE @,
       !.TotalDuration = @ + duration]

\* UpdSize with the minimum overwritten by every update
UpdSize_LastAsMin(s, bodySize) ==
    [s EXCEPT
       !.MinSize = bodySize,
       !.MaxSize = IF bodySize > @ THEN bodySize ELSE @,
       !.TotalSize = @ + bodySize]

\* the three size statements of Update
UpdSize(s, bodySize) ==
    [s EXCEPT
       !.MinSize = IF s.TotalRequests = 1 \/ bodySize < @ THEN bodySize ELSE @,
       !.MaxSize = IF bodySize > @ THEN bodySize ELSE @,
       !.TotalSize = @ + bodySize]

\* URLStats.Update run alone under its mutex
Update(s, duration, bodySize, success) ==
    UpdSize(UpdDuration(IncSuccess(IncTotal(s), success), duration), bodySize)

\* URLStats.GetSnapshot: a field-by-field copy
GetSnapshot(s) ==
    [URL |-> s.URL, TotalRequests |-> s.TotalRequests, SuccessCount |-> s.SuccessCount,
     MinDuration |-> s.MinDuration, MaxDuration |-> s.MaxDuration,
     TotalDuration |-> s.TotalDuration,
     MinSize |-> s.MinSize, MaxSize |-> s.MaxSize, TotalSize |-> s.TotalSize]

\* URLStats.AverageDuration: integer division of Go, which truncates
AverageDuration(s) ==
    IF s.TotalRequests = 0 THEN 0 ELSE s.TotalDuration \div s.TotalRequests

\* AverageSize rounding to the nearest integer
AverageSize_Rounded(s) ==
    IF s.TotalRequests = 0 THEN 0
    ELSE (s.TotalSize + s.TotalRequests \div 2) \div s.TotalRequests

\* URLStats.AverageSize
AverageSize(s) ==
    IF s.TotalRequests = 0 THEN 0 ELSE s.TotalSize \div s.TotalRequests

\* the updating goroutines of TestThreadSafety (routineID)
Goroutines == 0 .. (NumGoroutines - 1)

\* the arguments of the j-th Update call of goroutine routineID
TestDuration(routineID, j) == j + routineID
TestSize(routineID, j) == j + routineID * 100
TestSuccess(routineID, j) == (j + routineID) % 2 = 0

----------------------------------------------------------------------------
(* What an endpoint answers, and how makeRequest records it *)

\* err: "none", "transport" (httpClient error, including the client timeout),
\* "read" (io.ReadAll error); status and size of the body; elapsed time
Response(err, status, size, dur) ==
    [err |-> err, status |-> status, size |-> size, dur |-> dur]

\* the answers the endpoints of the model give: a page, and no answer within
\* the client's timeout
Responses ==
    { Response("none", 200, 2, 1),
      Response("transport", 0, 0, RequestTimeout) }

\* the status codes and body sizes of the endpoints makeRequest is tried
\* against by itself: those of TestHTTPSuccessDetection, and two below 200
TestStatuses == {101, 199, 200, 201, 299, 300, 301, 302, 399, 400, 401, 404, 500, 503}
BodySizes == {0, 2}

\* what such an endpoint answers: a response whose body is read to the end, a
\* response whose body read fails (after BodySizes bytes), or no response
TestResponses ==
    { Response("none", s, n, 1) : s \in TestStatuses, n \in BodySizes }
    \cup { Response("read", s, n, 1) : s \in TestStatuses, n \in BodySizes }
    \cup { Response("transport", 0, 0, d) : d \in {1, RequestTimeout} }

\* Outcome counting only the 2xx statuses as success
Outcome_Only2xx(r) ==
    IF r.err # "none"
    THEN [duration |-> r.dur, bodySize |-> 0, success |-> FALSE]
    ELSE [duration |-> r.dur, bodySize |-> r.size,
          success |-> r.status >= 200 /\ r.status < 300]

\* the (duration, bodySize, success) triple makeRequest hands to updateStats
Outcome(r) ==
    IF r.err # "none"
    THEN [duration |-> r.dur, bodySize |-> 0, success |-> FALSE]
    ELSE [duration |-> r.dur, bodySize |-> r.size,
          success |-> r.status >= 200 /\ r.status < 400]

\* part_000 only: the request's context is cancelled while the request is
\* outstanding, httpClient.Do (or the body read) returns the context's error
\* after the time elapsed so far
Aborted(r) == { Response("transport", 0, 0, d) : d \in { x \in {1} : x <= r.dur } }

----------------------------------------------------------------------------
(* State of one run *)

VARIABLES
    usesContext,  \* TRUE: the part_000 build; FALSE: the monitor.go build
    urls,         \* Monitor.urls: the validated list, duplicates included
    stats,        \* Monitor.stats: url -> URLStats
    updatedData,  \* Monitor.updatedData: notifications buffered in the channel
    cancelled,    \* ctx.Done() / m.shutdown is closed
    wg,           \* the WaitGroup counter
    cpc,          \* the coordinator (main): "idle", "running", "draining",
                  \*   "final", "stopped"
    finalRow,     \* next row of the final render
    final,        \* rows printed by the final render
    finalRenders, \* how many final renders were begun
    pc,           \* per polling goroutine: "idle", "init", "inflight",
                  \*   "notify", "select", "done"
    tick,         \* per polling goroutine: a tick is buffered in ticker.C
    issued,       \* makeRequest calls so far, over all polling goroutines
    resp,         \* per polling goroutine: what the endpoint answers the
                  \*   outstanding request
    preCancel,    \* per polling goroutine: the outstanding request was begun
                  \*   before cancellation
    afterCancel,  \* per polling goroutine: updates it recorded after cancellation
    dpc,          \* the display goroutine: "idle", "render", "select",
                  \*   "parked", "exiting" (woken for the shutdown case), "done"
    drow,         \* next row of the display goroutine's render
    shown,        \* rows of the display goroutine's latest render
    \* the times of one run, in seconds (they move only under TimedSpec):
    now,          \* the time elapsed since the program started
    nextTick,     \* per polling goroutine: when its ticker fires next
    endsAt,       \* per polling goroutine: when its outstanding request returns
    lastEnd,      \* per polling goroutine: when its latest request returned
    \* one URLStats shared by several updating goroutines and a reader
    \* (TestThreadSafety, and the reader side of renderTable):
    urlStats,     \* the fields of the URLStats
    mu,           \* its RWMutex: [writer |-> holder of Lock or -1, readers |-> RLocks held]
    gpc,          \* per updating goroutine: its place in its current Update
    gj,           \* per updating goroutine: the loop index j
    greg,         \* per updating goroutine: the value read by the ++ being executed
    rpc,          \* the reader: "idle", "rlocked", "copied" (it holds its copy)
    snapshot,     \* the reader's latest GetSnapshot result
    committed,    \* the values urlStats had at the start and at each Unlock
    \* the same URLStats used by one goroutine (the unit tests of Update,
    \* GetSnapshot and the averages; one row of renderTable):
    history,      \* the arguments of the Update calls made so far, in order
    avg           \* the averages of the latest row: computed from its snapshot

harnessVars == << urlStats, mu, gpc, gj, greg, rpc, snapshot, committed, history, avg >>

timeVars == << now, nextTick, endsAt, lastEnd >>

monitorVars ==
    << usesContext, urls, stats, updatedData, cancelled, wg, cpc, finalRow, final,
       finalRenders, pc, tick, issued, resp, preCancel, afterCancel, dpc, drow, shown,
       timeVars >>

vars == << monitorVars, harnessVars >>

coordVars == << cpc, finalRow, final, finalRenders >>
workerVars == << pc, tick, issued, resp, preCancel, afterCancel >>
displayVars == << dpc, drow, shown >>

Workers == DOMAIN urls
URLSet == { urls[i] : i \in DOMAIN urls }
NoResponse == Response("none", 0, 0, 0)

\* NewMonitor: one map entry per distinct url, the list kept as given
NewMonitorStats(list) ==
    [u \in { list[i] : i \in DOMAIN list } |-> NewURLStats(u)]

\* capacity of the updatedData channel made by NewMonitor
ChanCap == IF usesContext THEN BufferedCap ELSE UnbufferedCap

\* NewURLStats("http://example.com") of TestThreadSafety, nothing running yet
HarnessIdle ==
    /\ urlStats = NewURLStats(ArgA)
    /\ mu = [writer |-> -1, readers |-> 0]
    /\ gpc = [g \in Goroutines |-> "idle"]
    /\ gj = [g \in Goroutines |-> 0]
    /\ greg = [g \in Goroutines |-> 0]
    /\ rpc = "idle"
    /\ snapshot = GetSnapshot(NewURLStats(ArgA))
    /\ committed = { NewURLStats(ArgA) }
    /\ history = << >>
    /\ avg = [duration |-> 0, size |-> 0]

Init ==
    /\ HarnessIdle
    /\ usesContext \in BOOLEAN
    /\ urls \in { validateURLs(args) : args \in { a \in ArgLists : validateURLsOk(a) } }
    /\ stats = NewMonitorStats(urls)
    /\ updatedData = 0
    /\ cancelled = FALSE
    /\ wg = 0
    /\ cpc = "idle"
    /\ finalRow = 1
    /\ final = << >>
    /\ finalRenders = 0
    /\ pc = [w \in DOMAIN urls |-> "idle"]
    /\ tick = [w \in DOMAIN urls |-> FALSE]
    /\ issued = 0
    /\ resp = [w \in DOMAIN urls |-> NoResponse]
    /\ preCancel = [w \in DOMAIN urls |-> FALSE]
    /\ afterCancel = [w \in DOMAIN urls |-> 0]
    /\ dpc = "idle"
    /\ drow = 1
    /\ shown = << >>
    /\ now = 0
    /\ nextTick = [w \in DOMAIN urls |-> 0]
    /\ endsAt = [w \in DOMAIN urls |-> 0]
    /\ lastEnd = [w \in DOMAIN urls |-> 0]

----------------------------------------------------------------------------
(* Coordinator: main.go (part_000 build), Monitor.Shutdown (monitor.go build) *)

\* Monitor.Start: wg.Add(1) and go monitorURL for every list entry, then
\* wg.Add(1) and go displayLoop
Start ==
    /\ cpc = "idle"
    /\ cpc' = "running"
    /\ wg' = wg + Len(urls) + 1
    /\ pc' = [w \in Workers |-> "init"]
    /\ dpc' = "render"
    /\ drow' = 1
    /\ UNCHANGED << harnessVars, timeVars, usesContext, urls, stats, updatedData, cancelled, finalRow, final,
                    finalRenders, tick, issued, resp, preCancel, afterCancel, shown >>

\* SIGINT/SIGTERM cancels the context made at the top of main (part_000 build,
\* any time from process start); close(m.shutdown) in Shutdown (monitor.go
\* build, after Start).  Closing the channel wakes a display goroutine parked
\* in its select for the shutdown case: from then on no sender can hand it a
\* notification.
Cancel ==
    /\ ~cancelled
    /\ cpc \in {"idle", "running"}
    /\ usesContext \/ cpc = "running"
    /\ cancelled' = TRUE
    /\ dpc' = IF dpc = "parked" /\ updatedData = 0 THEN "exiting" ELSE dpc
    /\ UNCHANGED << harnessVars, timeVars, usesContext, urls, stats, updatedData, wg, coordVars, workerVars,
                    drow, shown >>

\* <-ctx.Done() returns in main; Shutdown goes on to m.wg.Wait()
AwaitCancel ==
    /\ cpc = "running"
    /\ cancelled
    /\ cpc' = "draining"
    /\ UNCHANGED << harnessVars, timeVars, usesContext, urls, stats, updatedData, cancelled, wg, finalRow,
                    final, finalRenders, workerVars, displayVars >>

\* WaitReturns with the wait left out: the final table is printed as soon as
\* cancellation is seen
WaitReturns_NoWait ==
    /\ cpc = "draining"
    /\ cpc' = "final"
    /\ finalRow' = 1
    /\ final' = << >>
    /\ finalRenders' = finalRenders + 1
    /\ UNCHANGED << harnessVars, timeVars, usesContext, urls, stats, updatedData, cancelled, wg, workerVars,
                    displayVars >>

\* wg.Wait() returns; displayFinalTable begins
WaitReturns ==
    /\ cpc = "draining"
    /\ wg = 0
    /\ cpc' = "final"
    /\ finalRow' = 1
    /\ final' = << >>
    /\ finalRenders' = finalRenders + 1
    /\ UNCHANGED << harnessVars, timeVars, usesContext, urls, stats, updatedData, cancelled, wg, workerVars,
                    displayVars >>

\* renderTable called by displayFinalTable: one row per list entry, each from
\* its own GetSnapshot
FinalRenderRow ==
    /\ cpc = "final"
    /\ finalRow <= Len(urls)
    /\ final' = Append(final, GetSnapshot(stats[urls[finalRow]]))
    /\ finalRow' = finalRow + 1
    /\ cpc' = IF finalRow = Len(urls) THEN "stopped" ELSE "final"
    /\ UNCHANGED << harnessVars, timeVars, usesContext, urls, stats, updatedData, cancelled, wg, finalRenders,
                    workerVars, displayVars >>

----------------------------------------------------------------------------
(* Polling goroutine: Monitor.monitorURL, makeRequest, updateStats *)
(* Tick, BeginRequest and CompleteRequest say nothing about the times: Next *)
(* pairs them with UNCHANGED timeVars, TimedNext with the clock.            *)

\* first requests not yet issued, and ticks delivered but not yet answered
FirstRequestsToCome == Cardinality({ w \in Workers : pc[w] \in {"idle", "init"} })
PendingTicks == Cardinality({ w \in Workers : tick[w] })

\* the runtime delivers a tick to ticker.C (one buffered slot; a tick that
\* finds the slot full is dropped).  The ticker lives from NewTicker to the
\* deferred ticker.Stop(); NewTicker is run by the goroutine right before its
\* first makeRequest.  The model delivers a tick only while the request it
\* leads to stays within MaxRequests.
Tick(w) ==
    /\ pc[w] \in {"inflight", "notify", "select"}
    /\ ~tick[w]
    /\ issued + FirstRequestsToCome + PendingTicks < MaxRequests
    /\ tick' = [tick EXCEPT ![w] = TRUE]
    /\ UNCHANGED << harnessVars, usesContext, urls, stats, updatedData, cancelled, wg,
                    coordVars, pc, issued, resp, preCancel, afterCancel, displayVars >>

\* makeRequest is entered and the GET goes out: the first call of monitorURL,
\* or the ticker.C case of its select
BeginRequest(w) ==
    /\ \/ /\ pc[w] = "init"
          /\ UNCHANGED tick
       \/ /\ pc[w] = "select"
          /\ tick[w]
          /\ tick' = [tick EXCEPT ![w] = FALSE]
    /\ issued' = issued + 1
    /\ \E r \in Responses : resp' = [resp EXCEPT ![w] = r]
    /\ preCancel' = [preCancel EXCEPT ![w] = ~cancelled]
    /\ pc' = [pc EXCEPT ![w] = "inflight"]
    /\ UNCHANGED << harnessVars, usesContext, urls, stats, updatedData, cancelled, wg, coordVars,
                    afterCancel, displayVars >>

\* what httpClient.Get / httpClient.Do and io.ReadAll can return for the
\* outstanding request of w
Returned(w) ==
    IF usesContext /\ cancelled
    THEN Aborted(resp[w]) \cup (IF preCancel[w] THEN {resp[w]} ELSE {})
    ELSE {resp[w]}

\* CompleteRequest in which updateStats applies the update to every entry of
\* the stats map
CompleteRequest_AllTargets(w) ==
    /\ pc[w] = "inflight"
    /\ \E r \in Returned(w) :
         LET o == Outcome(r) IN
         stats' = [u \in DOMAIN stats |->
                      Update(stats[u], o.duration, o.bodySize, o.success)]
    /\ afterCancel' = [afterCancel EXCEPT ![w] = IF cancelled THEN @ + 1 ELSE @]
    /\ resp' = [resp EXCEPT ![w] = NoResponse]
    /\ preCancel' = [preCancel EXCEPT ![w] = FALSE]
    /\ pc' = [pc EXCEPT ![w] = "notify"]
    /\ UNCHANGED << harnessVars, usesContext, urls, updatedData, cancelled, wg, coordVars, tick,
                    issued, displayVars >>

\* CompleteRequest in which a failed request ends the goroutine unrecorded
CompleteRequest_ExitOnError(w) ==
    /\ pc[w] = "inflight"
    /\ \E r \in Returned(w) :
         LET o == Outcome(r) IN
         IF r.err # "none"
         THEN /\ pc' = [pc EXCEPT ![w] = "done"]
              /\ UNCHANGED stats
         ELSE /\ pc' = [pc EXCEPT ![w] = "notify"]
              /\ stats' = [stats EXCEPT
                             ![urls[w]] = Update(@, o.duration, o.bodySize, o.success)]
    /\ afterCancel' = [afterCancel EXCEPT ![w] = IF cancelled THEN @ + 1 ELSE @]
    /\ resp' = [resp EXCEPT ![w] = NoResponse]
    /\ preCancel' = [preCancel EXCEPT ![w] = FALSE]
    /\ UNCHANGED << harnessVars, usesContext, urls, updatedData, cancelled, wg, coordVars, tick,
                    issued, displayVars >>

\* the rest of makeRequest up to stat.Update inside updateStats.  m.statsMu is
\* only ever read-locked (here and in renderTable), so it never makes anyone
\* wait and has no variable; stat.Update and GetSnapshot exclude each other by
\* the URLStats' own mutex, which StatsSpec models statement by statement.
CompleteRequest(w) ==
    /\ pc[w] = "inflight"
    /\ \E r \in Returned(w) :
         LET o == Outcome(r) IN
         stats' = [stats EXCEPT ![urls[w]] = Update(@, o.duration, o.bodySize, o.success)]
    /\ afterCancel' = [afterCancel EXCEPT ![w] = IF cancelled THEN @ + 1 ELSE @]
    /\ resp' = [resp EXCEPT ![w] = NoResponse]
    /\ preCancel' = [preCancel EXCEPT ![w] = FALSE]
    /\ pc' = [pc EXCEPT ![w] = "notify"]
    /\ UNCHANGED << harnessVars, usesContext, urls, updatedData, cancelled, wg, coordVars, tick,
                    issued, displayVars >>

\* the send case of updateStats' select can proceed: a free buffer slot, or
\* (unbuffered) the display goroutine parked in its select
SendCanProceed == updatedData < ChanCap \/ (ChanCap = 0 /\ dpc = "parked")

\* NotifySelect without the default case: a plain blocking send
NotifySelect_Blocking(w) ==
    /\ pc[w] = "notify"
    /\ SendCanProceed
    /\ IF ChanCap = 0
       THEN /\ dpc' = "render"
            /\ drow' = 1
            /\ UNCHANGED updatedData
       ELSE /\ updatedData' = updatedData + 1
            /\ UNCHANGED << dpc, drow >>
    /\ pc' = [pc EXCEPT ![w] = "select"]
    /\ UNCHANGED << harnessVars, timeVars, usesContext, urls, stats, cancelled, wg, coordVars, tick, issued,
                    resp, preCancel, afterCancel, shown >>

\* select { case m.updatedData <- struct{}{}: default: }
NotifySelect(w) ==
    /\ pc[w] = "notify"
    /\ IF SendCanProceed
       THEN IF ChanCap = 0
            THEN /\ dpc' = "render"
                 /\ drow' = 1
                 /\ UNCHANGED updatedData
            ELSE /\ updatedData' = updatedData + 1
                 /\ UNCHANGED << dpc, drow >>
       ELSE UNCHANGED << updatedData, dpc, drow >>
    /\ pc' = [pc EXCEPT ![w] = "select"]
    /\ UNCHANGED << harnessVars, timeVars, usesContext, urls, stats, cancelled, wg, coordVars, tick, issued,
                    resp, preCancel, afterCancel, shown >>

\* WorkerExit without the deferred wg.Done()
WorkerExit_NoDone(w) ==
    /\ pc[w] = "select"
    /\ cancelled
    /\ pc' = [pc EXCEPT ![w] = "done"]
    /\ tick' = [tick EXCEPT ![w] = FALSE]
    /\ UNCHANGED << harnessVars, timeVars, usesContext, urls, stats, updatedData, cancelled, wg, coordVars,
                    issued, resp, preCancel, afterCancel, displayVars >>

\* the shutdown case of monitorURL's select, then the deferred ticker.Stop()
\* and wg.Done()
WorkerExit(w) ==
    /\ pc[w] = "select"
    /\ cancelled
    /\ pc' = [pc EXCEPT ![w] = "done"]
    /\ tick' = [tick EXCEPT ![w] = FALSE]
    /\ wg' = wg - 1
    /\ UNCHANGED << harnessVars, timeVars, usesContext, urls, stats, updatedData, cancelled, coordVars, issued,
                    resp, preCancel, afterCancel, displayVars >>

----------------------------------------------------------------------------
(* Display goroutine: Monitor.displayLoop, displayTable, renderTable *)

\* one row of renderTable called by displayTable
RenderRow ==
    /\ dpc = "render"
    /\ drow <= Len(urls)
    /\ shown' = (IF drow = 1 THEN << >> ELSE shown)
                   \o << GetSnapshot(stats[urls[drow]]) >>
    /\ drow' = drow + 1
    /\ dpc' = IF drow = Len(urls) THEN "select" ELSE "render"
    /\ UNCHANGED << harnessVars, timeVars, usesContext, urls, stats, updatedData, cancelled, wg, coordVars,
                    workerVars >>

\* displayLoop's select finds no case ready and parks the goroutine
Park ==
    /\ dpc = "select"
    /\ updatedData = 0
    /\ ~cancelled
    /\ dpc' = "parked"
    /\ UNCHANGED << harnessVars, timeVars, usesContext, urls, stats, updatedData, cancelled, wg, coordVars,
                    workerVars, drow, shown >>

\* case <-m.updatedData of displayLoop's select, from the buffer
Receive ==
    /\ dpc \in {"select", "parked"}
    /\ updatedData > 0
    /\ updatedData' = updatedData - 1
    /\ dpc' = "render"
    /\ drow' = 1
    /\ UNCHANGED << harnessVars, timeVars, usesContext, urls, stats, cancelled, wg, coordVars, workerVars,
                    shown >>

\* the shutdown case of displayLoop's select, then the deferred wg.Done()
DisplayExit ==
    /\ dpc \in {"select", "exiting"}
    /\ cancelled
    /\ dpc' = "done"
    /\ wg' = wg - 1
    /\ UNCHANGED << harnessVars, timeVars, usesContext, urls, stats, updatedData, cancelled, coordVars,
                    workerVars, drow, shown >>

----------------------------------------------------------------------------

Next ==
    \/ Start
    \/ Cancel
    \/ AwaitCancel
    \/ WaitReturns
    \/ FinalRenderRow
    \/ \E w \in Workers : Tick(w) /\ UNCHANGED timeVars
    \/ \E w \in Workers : BeginRequest(w) /\ UNCHANGED timeVars
    \/ \E w \in Workers : CompleteRequest(w) /\ UNCHANGED timeVars
    \/ \E w \in Workers : NotifySelect(w)
    \/ \E w \in Workers : WorkerExit(w)
    \/ RenderRow
    \/ Park
    \/ Receive
    \/ DisplayExit

Spec == Init /\ [][Next]_vars

\* a step of the coordinator or of a goroutine (not the arrival of a tick, not
\* the operator's interrupt)
ProgramStep ==
    \/ Start
    \/ AwaitCancel
    \/ WaitReturns
    \/ FinalRenderRow
    \/ \E w \in Workers : BeginRequest(w) /\ UNCHANGED timeVars
    \/ \E w \in Workers : CompleteRequest(w) /\ UNCHANGED timeVars
    \/ \E w \in Workers : NotifySelect(w)
    \/ \E w \in Workers : WorkerExit(w)
    \/ RenderRow
    \/ Park
    \/ Receive
    \/ DisplayExit

\* While some goroutine can take a step, a step is eventually taken: the Go
\* scheduler starves no runnable goroutine and every outstanding request ends,
\* at the latest by the client's timeout.  This is weaker than fairness for
\* each goroutine by itself.  Ticks and the operator's interrupt are under no
\* obligation.
Fairness == WF_vars(ProgramStep)

LiveSpec == Spec /\ Fairness

----------------------------------------------------------------------------
(* The same run with its times: one polling goroutine, the ticker firing    *)
(* every PollInterval seconds from its creation, every request taking the   *)
(* time its answer takes, and the goroutines reacting at once               *)

\* the ticker of w has been created and not stopped
TickerRunning(w) == pc[w] \in {"inflight", "notify", "select"}

TimedInit == Init /\ Len(urls) = 1

\* the ticker of w fires and ticker.C has room
TickAt(w) ==
    /\ Tick(w)
    /\ now = nextTick[w]
    /\ nextTick' = [nextTick EXCEPT ![w] = @ + PollInterval]
    /\ UNCHANGED << now, endsAt, lastEnd >>

\* the ticker of w fires and ticker.C still holds the previous tick: the new
\* one is dropped
DropTick(w) ==
    /\ TickerRunning(w)
    /\ tick[w]
    /\ now = nextTick[w]
    /\ nextTick' = [nextTick EXCEPT ![w] = @ + PollInterval]
    /\ UNCHANGED << harnessVars, usesContext, urls, stats, updatedData, cancelled, wg, coordVars,
                    workerVars, displayVars, now, endsAt, lastEnd >>

\* makeRequest is entered; the first call comes right after NewTicker
BeginRequestAt(w) ==
    /\ BeginRequest(w)
    /\ endsAt' = [endsAt EXCEPT ![w] = now + resp'[w].dur]
    /\ nextTick' = [nextTick EXCEPT ![w] = IF pc[w] = "init" THEN now + PollInterval ELSE @]
    /\ UNCHANGED << now, lastEnd >>

\* the request returns when its answer is there (part_000: or before, once
\* the context is cancelled), and makeRequest goes on to updateStats
CompleteRequestAt(w) ==
    /\ CompleteRequest(w)
    /\ now = endsAt[w] \/ (usesContext /\ cancelled)
    /\ lastEnd' = [lastEnd EXCEPT ![w] = now]
    /\ UNCHANGED << now, nextTick, endsAt >>

\* a goroutine has a step to take now
Busy(w) ==
    \/ pc[w] \in {"init", "notify"}
    \/ pc[w] = "select" /\ (tick[w] \/ cancelled)
    \/ pc[w] = "inflight" /\ now >= endsAt[w]
    \/ TickerRunning(w) /\ now >= nextTick[w]

\* one second passes while a ticker runs and nothing is due
Advance ==
    /\ \E w \in Workers : TickerRunning(w)
    /\ \A w \in Workers : ~Busy(w)
    /\ now' = now + 1
    /\ UNCHANGED << harnessVars, usesContext, urls, stats, updatedData, cancelled, wg, coordVars,
                    workerVars, displayVars, nextTick, endsAt, lastEnd >>

TimedNext ==
    \/ Start
    \/ Cancel
    \/ AwaitCancel
    \/ WaitReturns
    \/ FinalRenderRow
    \/ \E w \in Workers : TickAt(w)
    \/ \E w \in Workers : DropTick(w)
    \/ \E w \in Workers : BeginRequestAt(w)
    \/ \E w \in Workers : CompleteRequestAt(w)
    \/ \E w \in Workers : NotifySelect(w)
    \/ \E w \in Workers : WorkerExit(w)
    \/ RenderRow
    \/ Park
    \/ Receive
    \/ DisplayExit
    \/ Advance

TimedSpec == TimedInit /\ [][TimedNext]_vars

----------------------------------------------------------------------------
(* makeRequest called by itself on a new Monitor with one URL, against an   *)
(* endpoint that gives any of TestResponses (TestHTTPSuccessDetection,      *)
(* TestMakeRequestBasic): no goroutine is started, and pc = "select" stands *)
(* for "makeRequest has returned"                                           *)

RequestInit ==
    /\ HarnessIdle
    /\ usesContext \in BOOLEAN
    /\ urls = << ArgA >>
    /\ stats = NewMonitorStats(urls)
    /\ updatedData = 0
    /\ cancelled = FALSE
    /\ wg = 0
    /\ cpc = "idle"
    /\ finalRow = 1
    /\ final = << >>
    /\ finalRenders = 0
    /\ pc = << "inflight" >>
    /\ tick = << FALSE >>
    /\ issued = 1
    /\ resp \in { << r >> : r \in TestResponses }
    /\ preCancel = << TRUE >>
    /\ afterCancel = << 0 >>
    /\ dpc = "idle"
    /\ drow = 1
    /\ shown = << >>
    /\ now = 0
    /\ nextTick = << 0 >>
    /\ endsAt = << 0 >>
    /\ lastEnd = << 0 >>

RequestNext ==
    \/ \E w \in Workers : CompleteRequest(w) /\ UNCHANGED timeVars
    \/ \E w \in Workers : NotifySelect(w)

RequestSpec == RequestInit /\ [][RequestNext]_vars

----------------------------------------------------------------------------
(* URLStats under concurrent use: Update statement by statement under its  *)
(* mutex, called as TestThreadSafety calls it, and GetSnapshot called by a  *)
(* concurrent reader as renderTable calls it                                *)

\* the Monitor is not part of this specification
MonitorAbsent ==
    /\ usesContext = FALSE
    /\ urls = << >>
    /\ stats = << >>
    /\ updatedData = 0
    /\ cancelled = FALSE
    /\ wg = 0
    /\ cpc = "idle"
    /\ finalRow = 1
    /\ final = << >>
    /\ finalRenders = 0
    /\ pc = << >>
    /\ tick = << >>
    /\ issued = 0
    /\ resp = << >>
    /\ preCancel = << >>
    /\ afterCancel = << >>
    /\ dpc = "idle"
    /\ drow = 1
    /\ shown = << >>
    /\ now = 0
    /\ nextTick = << >>
    /\ endsAt = << >>
    /\ lastEnd = << >>

StatsInit == MonitorAbsent /\ HarnessIdle

\* Update without its mutex: the call goes straight to the first statement
Lock_NoMutex(g) ==
    /\ gpc[g] = "idle"
    /\ gj[g] < UpdatesPerGoroutine
    /\ gpc' = [gpc EXCEPT ![g] = "loadTotal"]
    /\ UNCHANGED << monitorVars, history, avg, urlStats, mu, gj, greg, rpc, snapshot, committed >>

\* urlStats.Update(duration, size, success) is called: s.mu.Lock()
Lock(g) ==
    /\ gpc[g] = "idle"
    /\ gj[g] < UpdatesPerGoroutine
    /\ mu.writer = -1
    /\ mu.readers = 0
    /\ mu' = [mu EXCEPT !.writer = g]
    /\ gpc' = [gpc EXCEPT ![g] = "loadTotal"]
    /\ UNCHANGED << monitorVars, history, avg, urlStats, gj, greg, rpc, snapshot, committed >>

\* s.TotalRequests++ : the read
LoadTotal(g) ==
    /\ gpc[g] = "loadTotal"
    /\ greg' = [greg EXCEPT ![g] = urlStats.TotalRequests]
    /\ gpc' = [gpc EXCEPT ![g] = "storeTotal"]
    /\ UNCHANGED << monitorVars, history, avg, urlStats, mu, gj, rpc, snapshot, committed >>

\* StoreTotal with the write of the incremented count left out
StoreTotal_Dropped(g) ==
    /\ gpc[g] = "storeTotal"
    /\ gpc' = [gpc EXCEPT ![g] =
                 IF TestSuccess(g, gj[g]) THEN "loadSuccess" ELSE "duration"]
    /\ UNCHANGED << monitorVars, history, avg, urlStats, mu, gj, greg, rpc, snapshot, committed >>

\* s.TotalRequests++ : the write; then the test of `if success`
StoreTotal(g) ==
    /\ gpc[g] = "storeTotal"
    /\ urlStats' = [urlStats EXCEPT !.TotalRequests = greg[g] + 1]
    /\ gpc' = [gpc EXCEPT ![g] =
                 IF TestSuccess(g, gj[g]) THEN "loadSuccess" ELSE "duration"]
    /\ UNCHANGED << monitorVars, history, avg, mu, gj, greg, rpc, snapshot, committed >>

\* s.SuccessCount++ : the read
LoadSuccess(g) ==
    /\ gpc[g] = "loadSuccess"
    /\ greg' = [greg EXCEPT ![g] = urlStats.SuccessCount]
    /\ gpc' = [gpc EXCEPT ![g] = "storeSuccess"]
    /\ UNCHANGED << monitorVars, history, avg, urlStats, mu, gj, rpc, snapshot, committed >>

\* s.SuccessCount++ : the write
StoreSuccess(g) ==
    /\ gpc[g] = "storeSuccess"
    /\ urlStats' = [urlStats EXCEPT !.SuccessCount = greg[g] + 1]
    /\ gpc' = [gpc EXCEPT ![g] = "duration"]
    /\ UNCHANGED << monitorVars, history, avg, mu, gj, greg, rpc, snapshot, committed >>

\* the MinDuration, MaxDuration and TotalDuration statements
StoreDuration(g) ==
    /\ gpc[g] = "duration"
    /\ urlStats' = UpdDuration(urlStats, TestDuration(g, gj[g]))
    /\ gpc' = [gpc EXCEPT ![g] = "size"]
    /\ UNCHANGED << monitorVars, history, avg, mu, gj, greg, rpc, snapshot, committed >>

\* the MinSize, MaxSize and TotalSize statements
StoreSize(g) ==
    /\ gpc[g] = "size"
    /\ urlStats' = UpdSize(urlStats, TestSize(g, gj[g]))
    /\ gpc' = [gpc EXCEPT ![g] = "unlock"]
    /\ UNCHANGED << monitorVars, history, avg, mu, gj, greg, rpc, snapshot, committed >>

\* the deferred s.mu.Unlock(); Update returns and the loop goes on (j++), or
\* the goroutine is done
Unlock(g) ==
    /\ gpc[g] = "unlock"
    /\ mu' = [mu EXCEPT !.writer = IF @ = g THEN -1 ELSE @]
    /\ committed' = committed \cup {urlStats}
    /\ gj' = [gj EXCEPT ![g] = @ + 1]
    /\ gpc' = [gpc EXCEPT ![g] = IF gj[g] + 1 = UpdatesPerGoroutine THEN "done" ELSE "idle"]
    /\ UNCHANGED << monitorVars, history, avg, urlStats, greg, rpc, snapshot >>

\* GetSnapshot without its read lock
RLock_NoLock ==
    /\ rpc = "idle"
    /\ rpc' = "rlocked"
    /\ mu' = [mu EXCEPT !.readers = @ + 1]
    /\ UNCHANGED << monitorVars, history, avg, urlStats, gpc, gj, greg, snapshot, committed >>

\* stat.GetSnapshot() is called: s.mu.RLock()
RLock ==
    /\ rpc = "idle"
    /\ mu.writer = -1
    /\ rpc' = "rlocked"
    /\ mu' = [mu EXCEPT !.readers = @ + 1]
    /\ UNCHANGED << monitorVars, history, avg, urlStats, gpc, gj, greg, snapshot, committed >>

\* the copy GetSnapshot returns, and the deferred s.mu.RUnlock()
CopyAndRUnlock ==
    /\ rpc = "rlocked"
    /\ snapshot' = GetSnapshot(urlStats)
    /\ mu' = [mu EXCEPT !.readers = @ - 1]
    /\ rpc' = "copied"
    /\ UNCHANGED << monitorVars, history, avg, urlStats, gpc, gj, greg, committed >>

\* RowAverages calling the two averages on the URLStats itself (unlocked)
\* instead of on the copy
RowAverages_Live ==
    /\ rpc = "copied"
    /\ avg' = [duration |-> AverageDuration(urlStats), size |-> AverageSize(urlStats)]
    /\ rpc' = "idle"
    /\ UNCHANGED << monitorVars, history, urlStats, mu, gpc, gj, greg, snapshot, committed >>

\* the rest of the row of renderTable: snapshot.AverageDuration() and
\* snapshot.AverageSize(), then the row is printed
RowAverages ==
    /\ rpc = "copied"
    /\ avg' = [duration |-> AverageDuration(snapshot), size |-> AverageSize(snapshot)]
    /\ rpc' = "idle"
    /\ UNCHANGED << monitorVars, history, urlStats, mu, gpc, gj, greg, snapshot, committed >>

StatsNext ==
    \/ \E g \in Goroutines : Lock(g)
    \/ \E g \in Goroutines : LoadTotal(g)
    \/ \E g \in Goroutines : StoreTotal(g)
    \/ \E g \in Goroutines : LoadSuccess(g)
    \/ \E g \in Goroutines : StoreSuccess(g)
    \/ \E g \in Goroutines : StoreDuration(g)
    \/ \E g \in Goroutines : StoreSize(g)
    \/ \E g \in Goroutines : Unlock(g)
    \/ RLock
    \/ CopyAndRUnlock
    \/ RowAverages

StatsSpec == StatsInit /\ [][StatsNext]_vars

----------------------------------------------------------------------------
(* URLStats used by one goroutine: Update calls one after the other with    *)
(* any arguments, GetSnapshot and the two averages in between, as the unit  *)
(* tests and a row of renderTable use them                                  *)

\* the durations and body sizes passed to Update
Values == 0 .. MaxValue

\* SeqUpdate when GetSnapshot had handed out the URLStats itself instead of a
\* copy: the caller's snapshot follows the update
SeqUpdate_Aliased(duration, bodySize, success) ==
    /\ Len(history) < MaxUpdates
    /\ urlStats' = Update(urlStats, duration, bodySize, success)
    /\ snapshot' = GetSnapshot(urlStats')
    /\ history' = Append(history, [duration |-> duration, bodySize |-> bodySize,
                                   success |-> success])
    /\ UNCHANGED << monitorVars, mu, gpc, gj, greg, rpc, committed, avg >>

\* stats.Update(duration, bodySize, success)
SeqUpdate(duration, bodySize, success) ==
    /\ Len(history) < MaxUpdates
    /\ urlStats' = Update(urlStats, duration, bodySize, success)
    /\ history' = Append(history, [duration |-> duration, bodySize |-> bodySize,
                                   success |-> success])
    /\ UNCHANGED << monitorVars, mu, gpc, gj, greg, rpc, snapshot, committed, avg >>

\* snapshot := stats.GetSnapshot(), then snapshot.AverageDuration() and
\* snapshot.AverageSize()
SeqSnapshot ==
    /\ snapshot' = GetSnapshot(urlStats)
    /\ avg' = [duration |-> AverageDuration(snapshot'), size |-> AverageSize(snapshot')]
    /\ UNCHANGED << monitorVars, urlStats, mu, gpc, gj, greg, rpc, committed, history >>

SeqNext ==
    \/ \E duration \in Values, bodySize \in Values, success \in BOOLEAN :
          SeqUpdate(duration, bodySize, success)
    \/ SeqSnapshot

SeqSpec == StatsInit /\ [][SeqNext]_vars

----------------------------------------------------------------------------
(* Claims *)

\* C1: after cancellation is signalled no polling goroutine starts a new
\* request, so each goroutine records at most one update after cancellation
\* (the request that was outstanding when cancellation came).
C1_AtMostOneUpdateAfterCancel ==
    \A w \in Workers : afterCancel[w] <= 1

\* C2: the final render is begun exactly once, and only after every polling
\* goroutine and the display goroutine have exited; from then on no aggregator
\* changes and the display goroutine renders nothing.
FinalRenderBegun == cpc \in {"final", "stopped"}

QuiescedAtFinalRender ==
    FinalRenderBegun =>
        /\ finalRenders = 1
        /\ \A w \in Workers : pc[w] = "done"
        /\ dpc = "done"

NothingMovesAfterFinalRender ==
    FinalRenderBegun =>
        /\ stats' = stats
        /\ dpc' = dpc /\ drow' = drow /\ shown' = shown
        /\ finalRenders' = finalRenders

C2_FinalRenderAfterQuiescence ==
    /\ [](finalRenders <= 1)
    /\ []QuiescedAtFinalRender
    /\ [][NothingMovesAfterFinalRender]_vars

C2_Witness ==
    /\ cpc = "stopped"
    /\ finalRenders = 1
    /\ Len(final) = Len(urls)
    /\ \E i \in DOMAIN final : final[i].TotalRequests > 0

RecordsEndpointAnswer(w) ==
    (pc[w] = "inflight" /\ preCancel[w] /\ cancelled /\ pc'[w] = "notify") =>
        LET o == Outcome(resp[w]) IN
        stats'[urls[w]] = Update(stats[urls[w]], o.duration, o.bodySize, o.success)

C4_InFlightRequestNotAborted ==
    [][\A w \in Workers : RecordsEndpointAnswer(w)]_vars

\* the Update calls TestThreadSafety makes, as (routineID, j) pairs
TestCalls == Goroutines \X (0 .. (UpdatesPerGoroutine - 1))

AllUpdatesReturned == \A g \in Goroutines : gpc[g] = "done"

\* C5: concurrent Update calls on one aggregator lose no update: once all
\* calls have returned, TotalRequests is the number of calls made and
\* SuccessCount the number of calls made with success = true.
C5_NoLostUpdate ==
    AllUpdatesReturned =>
        /\ urlStats.TotalRequests = Cardinality(TestCalls)
        /\ urlStats.SuccessCount =
              Cardinality({ c \in TestCalls : TestSuccess(c[1], c[2]) })

C5_Witness ==
    /\ AllUpdatesReturned
    /\ urlStats.TotalRequests = NumGoroutines * UpdatesPerGoroutine
    /\ urlStats.SuccessCount > 0
    /\ urlStats.SuccessCount < urlStats.TotalRequests

\* C6: a snapshot taken concurrently with Update calls equals the aggregate
\* after some whole number of completed updates, never a partially applied
\* one.
C6_SnapshotNeverTorn == snapshot \in committed

C6_Witness ==
    /\ snapshot.TotalRequests > 0
    /\ \E g \in Goroutines : gpc[g] \notin {"idle", "done"}
    /\ snapshot # GetSnapshot(urlStats)

\* C7: while cancellation has not been requested no completed update stays
\* undisplayed: whenever the display goroutine waits in its select with no
\* notification pending and no goroutine about to notify, its latest render
\* shows every completed update.
C7_NoUpdateLeftUndisplayed ==
    ( /\ ~cancelled
      /\ dpc \in {"select", "parked"}
      /\ updatedData = 0
      /\ \A w \in Workers : pc[w] # "notify" )
    => \A i \in DOMAIN urls : shown[i].TotalRequests = stats[urls[i]].TotalRequests

\* C8: the change signal holds at most one pending notification at any time.
C8_AtMostOnePending == updatedData <= 1

\* C9: producing the notification never blocks a polling goroutine: whatever
\* the display goroutine is doing, the select of updateStats can be executed.
C9_NotifyNeverBlocks ==
    \A w \in Workers : pc[w] = "notify" => ENABLED NotifySelect(w)

C9_Witness ==
    \E w \in Workers : pc[w] = "notify" /\ dpc = "done" /\ ~usesContext

\* C10: for every accepted argument list, at most one request is outstanding
\* per target identifier at any moment.
C10_OneOutstandingPerTarget ==
    \A u \in URLSet :
        Cardinality({ w \in Workers : urls[w] = u /\ pc[w] = "inflight" }) <= 1

\* C11: for every accepted list the stats map holds exactly one aggregator
\* per list entry (as many aggregators as entries), each carrying its own
\* identifier and starting with count 0, and each aggregator is written by
\* exactly one polling goroutine.
C11_OneAggregatorPerEntry ==
    /\ Cardinality(DOMAIN stats) = Len(urls)
    /\ \A u \in DOMAIN stats : stats[u].URL = u
    /\ cpc = "idle" => \A u \in DOMAIN stats : stats[u].TotalRequests = 0
    /\ \A u \in DOMAIN stats : Cardinality({ w \in Workers : urls[w] = u }) = 1

\* the values of one field over the Update calls made so far
Observed(field) == { history[i][field] : i \in DOMAIN history }
MinOf(S) == CHOOSE m \in S : \A x \in S : m <= x
MaxOf(S) == CHOOSE m \in S : \A x \in S : m >= x

RECURSIVE SumOf(_, _)
SumOf(field, n) == IF n = 0 THEN 0 ELSE history[n][field] + SumOf(field, n - 1)

\* C12: after any non-empty sequence of updates with durations and sizes >= 0
\* on a fresh aggregator, the min fields hold the minimum, the max fields the
\* maximum and the total fields the sum of the values passed; the first
\* update sets min and max to its own values, and the sentinel is in no min
\* field.
C12_MinMaxTotal ==
    history # << >> =>
        /\ urlStats.MinDuration = MinOf(Observed("duration"))
        /\ urlStats.MaxDuration = MaxOf(Observed("duration"))
        /\ urlStats.TotalDuration = SumOf("duration", Len(history))
        /\ urlStats.MinSize = MinOf(Observed("bodySize"))
        /\ urlStats.MaxSize = MaxOf(Observed("bodySize"))
        /\ urlStats.TotalSize = SumOf("bodySize", Len(history))
        /\ urlStats.MinDuration # MaxInt64 /\ urlStats.MinSize # MaxInt64
        /\ Len(history) = 1 =>
              /\ urlStats.MinDuration = history[1].duration
              /\ urlStats.MaxDuration = history[1].duration
              /\ urlStats.MinSize = history[1].bodySize
              /\ urlStats.MaxSize = history[1].bodySize

C12_Witness ==
    /\ Len(history) = 3
    /\ history[1].duration = 1 /\ history[2].duration = 0 /\ history[3].duration = 1
    /\ history[1].bodySize = 0 /\ history[2].bodySize = 1 /\ history[3].bodySize = 1
    /\ urlStats.MinDuration = 0 /\ urlStats.MaxDuration = 1 /\ urlStats.TotalDuration = 2
    /\ urlStats.MinSize = 0 /\ urlStats.MaxSize = 1 /\ urlStats.TotalSize = 2

\* the range fields of an aggregator value are ordered
RangeOrdered(s) ==
    s.TotalRequests >= 1 => (s.MinDuration <= s.MaxDuration /\ s.MinSize <= s.MaxSize)

\* an update of an aggregator that already has a count raises no min field
\* and lowers no max field
RangeOnlyWidens ==
    (urlStats.TotalRequests >= 1 /\ urlStats' # urlStats) =>
        /\ urlStats'.MinDuration <= urlStats.MinDuration
        /\ urlStats'.MaxDuration >= urlStats.MaxDuration
        /\ urlStats'.MinSize <= urlStats.MinSize
        /\ urlStats'.MaxSize >= urlStats.MaxSize

\* C13: whenever an aggregator (or a snapshot of it) has count >= 1,
\* MinDuration <= MaxDuration and MinSize <= MaxSize, and every further update
\* only widens the range: no min field rises, no max field falls.
C13_RangeWidens ==
    /\ [](RangeOrdered(urlStats) /\ RangeOrdered(snapshot))
    /\ [][RangeOnlyWidens]_vars

C13_Witness ==
    /\ Len(history) = 3
    /\ history[1].duration = 1 /\ history[2].duration = 0 /\ history[3].duration = 0
    /\ history[1].bodySize = 0 /\ history[2].bodySize = 1 /\ history[3].bodySize = 0
    /\ urlStats.MinDuration < urlStats.MaxDuration
    /\ urlStats.MinSize < urlStats.MaxSize
    /\ snapshot.TotalRequests = 1

\* an aggregator value counts no more successes than requests
SuccessWithinTotal(s) == s.SuccessCount <= s.TotalRequests

\* C14: in every reachable state of every aggregator, between the statements
\* of concurrent updates included, and in every snapshot of it,
\* SuccessCount <= TotalRequests.
C14_SuccessNeverExceedsTotal ==
    /\ SuccessWithinTotal(urlStats)
    /\ SuccessWithinTotal(snapshot)
    /\ \A c \in committed : SuccessWithinTotal(c)
    /\ \A u \in DOMAIN stats : SuccessWithinTotal(stats[u])
    /\ \A i \in DOMAIN shown : SuccessWithinTotal(shown[i])
    /\ \A i \in DOMAIN final : SuccessWithinTotal(final[i])

C14_Witness ==
    /\ \E g \in Goroutines : gpc[g] = "storeSuccess"
    /\ urlStats.SuccessCount >= 1
    /\ urlStats.SuccessCount < urlStats.TotalRequests
    /\ snapshot.SuccessCount >= 1
    /\ snapshot.SuccessCount < snapshot.TotalRequests

\* q is the truncated quotient of total by n (total >= 0, n > 0)
IsTruncatedQuotient(q, total, n) == q * n <= total /\ total < (q + 1) * n

\* the two averages of an aggregator value are as specified
AveragesAsSpecified(s, avgDuration, avgSize) ==
    IF s.TotalRequests = 0
    THEN avgDuration = 0 /\ avgSize = 0
    ELSE /\ IsTruncatedQuotient(avgDuration, s.TotalDuration, s.TotalRequests)
         /\ IsTruncatedQuotient(avgSize, s.TotalSize, s.TotalRequests)

\* C15: AverageDuration and AverageSize return 0 when the count is 0 and
\* otherwise the truncated quotients TotalDuration / count and
\* TotalSize / count, on the aggregator after any updates and on any snapshot.
C15_AveragesTruncate ==
    /\ AveragesAsSpecified(urlStats, AverageDuration(urlStats), AverageSize(urlStats))
    /\ AveragesAsSpecified(snapshot, avg.duration, avg.size)

C15_Witness ==
    /\ snapshot.TotalRequests = 3
    /\ snapshot.TotalDuration = 3 /\ avg.duration = 1
    /\ snapshot.TotalSize = 2 /\ avg.size = 0
    /\ urlStats = snapshot

\* an Update call leaves the snapshot taken before it, and the averages
\* computed from it, as they were, and is applied to the aggregator
SnapshotKeptByUpdate ==
    history' # history =>
        /\ snapshot' = snapshot
        /\ avg' = avg
        /\ urlStats'.TotalRequests = urlStats.TotalRequests + 1
        /\ urlStats'.TotalRequests > snapshot'.TotalRequests

\* C16: GetSnapshot returns a copy: every update made after a snapshot was
\* taken leaves every field of that snapshot unchanged, while the aggregator
\* itself reflects the update.
C16_SnapshotIsCopy == [][SnapshotKeptByUpdate]_vars

C16_Witness ==
    /\ snapshot.TotalRequests = 2
    /\ snapshot.SuccessCount = 1
    /\ urlStats.TotalRequests = 3
    /\ urlStats.SuccessCount = 2
    /\ urlStats.TotalDuration > snapshot.TotalDuration

\* the request of w was answered without transport error, its body was read
\* without error, and the status is in [200, 400)
AnsweredWell(r) ==
    /\ r.err \notin {"transport", "read"}
    /\ 200 <= r.status /\ r.status < 400

\* the update recorded for the request of w counts a success exactly when the
\* request was answered well
SuccessRecordedIffAnsweredWell(w) ==
    (pc[w] = "inflight" /\ pc'[w] = "notify") =>
        /\ stats'[urls[w]].TotalRequests = stats[urls[w]].TotalRequests + 1
        /\ stats'[urls[w]].SuccessCount =
              stats[urls[w]].SuccessCount + (IF AnsweredWell(resp[w]) THEN 1 ELSE 0)

\* C17: a request is recorded with success = true exactly when there was no
\* transport error, the body was read without error and 200 <= status < 400;
\* every other case is recorded with success = false.
C17_SuccessClassification ==
    [][\A w \in Workers : SuccessRecordedIffAnsweredWell(w)]_vars

C17_Witness ==
    /\ pc = << "select" >>
    /\ stats[ArgA].TotalRequests = 1
    /\ stats[ArgA].SuccessCount = 1
    /\ stats[ArgA].MinSize = 2

RECURSIVE SumRequests(_)
SumRequests(S) ==
    IF S = {} THEN 0
    ELSE LET u == CHOOSE x \in S : TRUE
         IN  stats[u].TotalRequests + SumRequests(S \ {u})

\* as many updates are recorded as requests were issued and have ended
UpdatesMatchRequests ==
    SumRequests(DOMAIN stats) = issued - Cardinality({ w \in Workers : pc[w] = "inflight" })

\* the end of the request of w is one update of its own aggregator, which for
\* a request that got no answer or whose body read failed counts no success
\* and records size 0
RequestRecordedOnce(w) ==
    (pc[w] = "inflight" /\ pc'[w] # "inflight") =>
        /\ pc'[w] = "notify"
        /\ stats'[urls[w]].TotalRequests = stats[urls[w]].TotalRequests + 1
        /\ \A u \in DOMAIN stats \ {urls[w]} : stats'[u] = stats[u]
        /\ resp[w].err # "none" =>
              /\ stats'[urls[w]].SuccessCount = stats[urls[w]].SuccessCount
              /\ stats'[urls[w]].TotalSize = stats[urls[w]].TotalSize
              /\ stats'[urls[w]].MinSize = 0

\* after its update w goes on to its select, and it ends only from that
\* select and only when cancellation was signalled
WorkerKeepsPolling(w) ==
    /\ pc[w] = "notify" => pc'[w] \in {"notify", "select"}
    /\ (pc[w] # "done" /\ pc'[w] = "done") => (cancelled /\ pc[w] = "select")

\* no aggregator changes but by the end of a request
StatsOnlyByRequests ==
    stats' # stats => \E w \in Workers : pc[w] = "inflight" /\ pc'[w] = "notify"

\* C18: every request a polling goroutine issues, failed or not, ends in
\* exactly one update of its target's aggregator (count + 1; for a failed
\* request success count unchanged and size 0), after which the goroutine
\* waits for its next tick; a failure never ends the goroutine, only
\* cancellation does.
C18_EveryRequestRecordedOnce ==
    /\ []UpdatesMatchRequests
    /\ [][StatsOnlyByRequests]_vars
    /\ [][\A w \in Workers : RequestRecordedOnce(w) /\ WorkerKeepsPolling(w)]_vars

\* a goroutine whose first request failed has issued its second one
C18_Witness ==
    /\ Len(urls) = 1
    /\ ~cancelled
    /\ issued = 2
    /\ pc[1] = "inflight"
    /\ stats[urls[1]].TotalRequests = 1
    /\ stats[urls[1]].SuccessCount = 0
    /\ stats[urls[1]].MinSize = 0

\* w issues a request from its select only a full interval after its
\* previous request returned
FullIntervalBeforeNext(w) ==
    (pc[w] = "select" /\ pc'[w] = "inflight") => now - lastEnd[w] >= PollInterval

\* C19: a polling goroutine issues its first request at once, and between the
\* return of one request and the start of the next at least a full poll
\* interval passes, also when the request took longer than the interval.
C19_FullIntervalBetweenRequests ==
    /\ [](\A w \in Workers : pc[w] = "init" => now = 0)
    /\ [][\A w \in Workers : FullIntervalBeforeNext(w)]_vars

\* the display goroutine's first step is a render
RendersAtStartup ==
    (dpc = "idle" /\ dpc' # "idle") => (dpc' = "render" /\ drow' = 1)

\* the display goroutine leaves its select for a render only by taking a
\* notification: one out of the channel's buffer, or one handed over by a
\* polling goroutine's send
RendersOnlyOnNotification ==
    (dpc \in {"select", "parked"} /\ dpc' = "render") =>
        \/ updatedData' = updatedData - 1
        \/ ChanCap = 0 /\ \E w \in Workers : pc[w] = "notify" /\ pc'[w] = "select"

\* once cancellation is signalled the display goroutine does not leave its
\* select for a render
NoRenderOnceCancelled ==
    (dpc \in {"select", "parked"} /\ dpc' = "render") => ~cancelled

\* C20: the display goroutine renders once at startup before it waits,
\* thereafter only in answer to a notification, and once cancellation is
\* signalled it leaves its select without rendering, also when a notification
\* and the cancellation are both ready.
C20_NoRenderAfterCancel ==
    [][RendersAtStartup /\ RendersOnlyOnNotification /\ NoRenderOnceCancelled]_vars

\* the update that ends the request of w leaves every other target's
\* aggregator as it was
OtherTargetsUntouched(w) ==
    (pc[w] = "inflight" /\ pc'[w] = "notify") =>
        /\ stats'[urls[w]] # stats[urls[w]]
        /\ \A u \in DOMAIN stats : u # urls[w] => stats'[u] = stats[u]

\* the keys of the stats map and the target list stay as NewMonitor made them
TargetsFixed ==
    /\ DOMAIN stats' = DOMAIN stats
    /\ urls' = urls

\* a step of a render (of the display goroutine or the final one) changes no
\* aggregator
RendersChangeNoAggregator ==
    (shown' # shown \/ final' # final \/ drow' # drow \/ finalRow' # finalRow) =>
        stats' = stats

\* C21: an update recorded for one target changes that target's aggregator
\* only; the keys of the stats map and the order of the target list never
\* change; renders and their snapshots change no aggregator.
C21_UpdateTouchesOwnTargetOnly ==
    [][ /\ \A w \in Workers : OtherTargetsUntouched(w)
        /\ TargetsFixed
        /\ RendersChangeNoAggregator ]_vars

C21_Witness ==
    /\ Len(urls) = 2
    /\ urls[1] # urls[2]
    /\ stats[urls[1]].TotalRequests = 0
    /\ stats[urls[2]].TotalRequests = 1
    /\ pc[1] = "inflight"
    /\ Len(shown) = 2
    /\ shown[2].TotalRequests = 1

\* the averages printed in a row lie within the range printed in it
AveragesWithinRange(s, avgDuration, avgSize) ==
    s.TotalRequests >= 1 =>
        /\ s.MinDuration <= avgDuration /\ avgDuration <= s.MaxDuration
        /\ s.MinSize <= avgSize /\ avgSize <= s.MaxSize

\* C22: in every row rendered for a target with count >= 1 the averages lie
\* within the row's own range, MinDuration <= AverageDuration <= MaxDuration
\* and MinSize <= AverageSize <= MaxSize: they are computed from the same
\* snapshot copy as min and max, whatever updates go on meanwhile.
C22_AveragesWithinRowRange ==
    /\ rpc = "idle" => AveragesWithinRange(snapshot, avg.duration, avg.size)
    /\ \A i \in DOMAIN shown :
          AveragesWithinRange(shown[i], AverageDuration(shown[i]), AverageSize(shown[i]))
    /\ \A i \in DOMAIN final :
          AveragesWithinRange(final[i], AverageDuration(final[i]), AverageSize(final[i]))

\* a row printed from a copy that further updates have since left behind
C22_Witness ==
    /\ rpc = "idle"
    /\ snapshot.TotalRequests >= 2
    /\ snapshot.MinSize < avg.size /\ avg.size < snapshot.MaxSize
    /\ urlStats.TotalRequests > snapshot.TotalRequests
    /\ \E g \in Goroutines : gpc[g] \notin {"idle", "done"}

\* the aggregator value b is not behind a: no smaller counts and, once a has a
\* count, no larger min and no smaller max
NotBehind(a, b) ==
    /\ a.TotalRequests <= b.TotalRequests
    /\ a.SuccessCount <= b.SuccessCount
    /\ a.TotalRequests >= 1 =>
          /\ b.MinDuration <= a.MinDuration /\ b.MaxDuration >= a.MaxDuration
          /\ b.MinSize <= a.MinSize /\ b.MaxSize >= a.MaxSize

\* a row is never behind the row it replaces on the screen nor, in the final
\* render, behind the display goroutine's last row for the same list entry;
\* no row is ahead of its aggregator and no aggregator goes back, so the rows
\* of a later render are not behind those of an earlier one
RendersNeverGoBack ==
    /\ \A i \in DOMAIN shown \cap DOMAIN shown' : NotBehind(shown[i], shown'[i])
    /\ \A i \in DOMAIN shown \cap DOMAIN final' : NotBehind(shown[i], final'[i])
    /\ \A i \in DOMAIN shown' : NotBehind(shown'[i], stats'[urls[i]])
    /\ \A i \in DOMAIN final' : NotBehind(final'[i], stats'[urls[i]])
    /\ \A u \in DOMAIN stats : NotBehind(stats[u], stats'[u])

RECURSIVE SumFinalCounts(_)
SumFinalCounts(n) == IF n = 0 THEN 0 ELSE final[n].TotalRequests + SumFinalCounts(n - 1)

\* each row of the completed final render shows the requests the polling
\* goroutine of its list entry completed, so the rows add up to the requests
\* issued
FinalCountsAreCompletedRequests ==
    cpc = "stopped" =>
        /\ \A i \in DOMAIN final : final[i].TotalRequests = stats[urls[i]].TotalRequests
        /\ SumFinalCounts(Len(final)) = issued

\* C23: across the renders of one run, the final one included, a target's
\* displayed count and success count never decrease, its displayed min never
\* increases and its displayed max never decreases once it has a count, and
\* the final render shows for every target the number of requests its polling
\* goroutine completed.
C23_RendersMonotoneFinalComplete ==
    /\ [][RendersNeverGoBack]_vars
    /\ []FinalCountsAreCompletedRequests

====
